---- MODULE Spec2Model ----
(***************************************************************************)
(* crontabula: a cron expression parser (parse, _expression_to_list,       *)
(* _try_int, _handle_text_day_week) and the two lazy generators of a       *)
(* Crontab (dates, date_times).                                            *)
(*                                                                         *)
(* Texts are sequences of one-character strings, so that split, replace,   *)
(* isnumeric and int are computed character by character as Python does.  *)
(* A call that raises is modelled by a result record whose field err      *)
(* names the exception class that leaves the call ("" when it returns).   *)
(***************************************************************************)
EXTENDS Integers, Sequences, FiniteSets, TLC

VARIABLES expr, ppc, crontab, raised, dgens, tgens

vars == <<expr, ppc, crontab, raised, dgens, tgens>>

(***************************************************************************)
(* Bounds of the exploration (the consumer's truncation of the infinite   *)
(* sequences).                                                             *)
(***************************************************************************)
\* A consumer pulls at most MaxPulls elements from a generator.
MaxPulls == 4

\* A consumer gives up on a generator once it scans MaxYears years past its start.
MaxYears == 9

(***************************************************************************)
(* Text primitives (Python str methods used by the parser).                *)
(***************************************************************************)
\* A TLA+ string as the sequence of its characters.
Chars(s) == [i \in 1..Len(s) |-> SubSeq(s, i, i)]

Digits == <<"0", "1", "2", "3", "4", "5", "6", "7", "8", "9">>

IsDigit(c) == \E i \in 1..10 : Digits[i] = c

DigitValue(c) == (CHOOSE i \in 1..10 : Digits[i] = c) - 1

\* `sep in s` for a one-character sep.
Contains(s, sep) == \E i \in 1..Len(s) : s[i] = sep

\* s.split(sep) for a one-character sep: always at least one piece, empty
\* pieces kept.
RECURSIVE SplitFrom(_, _, _, _)
SplitFrom(s, sep, i, cur) ==
    IF i > Len(s) THEN <<cur>>
    ELSE IF s[i] = sep THEN <<cur>> \o SplitFrom(s, sep, i + 1, <<>>)
    ELSE SplitFrom(s, sep, i + 1, Append(cur, s[i]))

Split(s, sep) == SplitFrom(s, sep, 1, <<>>)

\* Whether pat occurs in s at position i.
MatchAt(s, pat, i) ==
    /\ i + Len(pat) - 1 <= Len(s)
    /\ \A j \in 1..Len(pat) : s[i + j - 1] = pat[j]

\* s.replace(pat, rep): left to right, non-overlapping occurrences.
RECURSIVE ReplaceFrom(_, _, _, _)
ReplaceFrom(s, pat, rep, i) ==
    IF i > Len(s) THEN <<>>
    ELSE IF MatchAt(s, pat, i) THEN rep \o ReplaceFrom(s, pat, rep, i + Len(pat))
    ELSE <<s[i]>> \o ReplaceFrom(s, pat, rep, i + 1)

Replace(s, pat, rep) == ReplaceFrom(s, Chars(pat), Chars(rep), 1)

\* s.isnumeric(): non-empty and every character numeric.
IsNumeric(s) == Len(s) > 0 /\ \A i \in 1..Len(s) : IsDigit(s[i])

\* The value of a non-empty digit string.
RECURSIVE DigitsValue(_)
DigitsValue(s) ==
    IF Len(s) = 0 THEN 0
    ELSE 10 * DigitsValue(SubSeq(s, 1, Len(s) - 1)) + DigitValue(s[Len(s)])

\* int(s): digits with an optional leading minus sign; anything else raises
\* (ok = FALSE).
IntOf(s) ==
    IF IsNumeric(s) THEN [ok |-> TRUE, val |-> DigitsValue(s)]
    ELSE IF Len(s) > 1 /\ s[1] = "-" /\ IsNumeric(Tail(s))
         THEN [ok |-> TRUE, val |-> 0 - DigitsValue(Tail(s))]
    ELSE [ok |-> FALSE, val |-> 0]

\* list(range(lo, hi, step)) for step >= 1.
RECURSIVE RangeList(_, _, _)
RangeList(lo, hi, step) ==
    IF lo >= hi THEN <<>> ELSE <<lo>> \o RangeList(lo + step, hi, step)

SeqRange(s) == {s[i] : i \in 1..Len(s)}

\* sorted(S) of a finite set of integers.
RECURSIVE Sorted(_)
Sorted(S) ==
    IF S = {} THEN <<>>
    ELSE LET m == CHOOSE x \in S : \A y \in S : x <= y
         IN <<m>> \o Sorted(S \ {m})

(***************************************************************************)
(* The expression parser.                                                  *)
(***************************************************************************)
Returned(v) == [err |-> "", val |-> v]

Raise(kind) == [err |-> kind, val |-> <<>>]

\* _try_int without the upper limit.
try_int_no_max(v, max_value, min_value) ==
    LET r == IntOf(v)
    IN IF ~r.ok THEN Raise("InvalidExpression")
       ELSE IF r.val < 0 \/ min_value > r.val
            THEN Raise("InvalidExpression")
       ELSE Returned(r.val)

\* _try_int: int(v), then the range check.
try_int(v, max_value, min_value) ==
    LET r == IntOf(v)
    IN IF ~r.ok THEN Raise("InvalidExpression")
       ELSE IF r.val < 0 \/ min_value > r.val \/ max_value < r.val
            THEN Raise("InvalidExpression")
       ELSE Returned(r.val)

\* range(lo, hi, step) as a list; a step of zero raises ValueError.
PyRange(lo, hi, step) ==
    IF step = 0 THEN Raise("ValueError") ELSE Returned(RangeList(lo, hi, step))

\* The list branch without its sorted(set(...)): the sub-lists concatenated.
RECURSIVE ConcatAll(_)
ConcatAll(lists) ==
    IF Len(lists) = 0 THEN <<>> ELSE Head(lists) \o ConcatAll(Tail(lists))

CombineUnsorted(lists) == ConcatAll(lists)

\* The list branch's combination of its sub-results: the set comprehension,
\* then list(sorted(values)).
Combine(lists) == Sorted(UNION {SeqRange(lists[i]) : i \in 1..Len(lists)})

\* _expression_to_list(expr, max_value, min_value=, step=)
RECURSIVE expression_to_list(_, _, _, _)
expression_to_list(e, max_value, min_value, step) ==
    IF Contains(e, ",") THEN
        LET subs == Split(e, ",")
            res  == [i \in 1..Len(subs) |->
                        expression_to_list(subs[i], max_value, min_value, step)]
            bad  == {i \in 1..Len(subs) : res[i].err # ""}
        IN IF bad # {}
           THEN Raise(res[CHOOSE i \in bad : \A j \in bad : i <= j].err)
           ELSE Returned(Combine([i \in 1..Len(subs) |-> res[i].val]))
    ELSE IF e = <<"*">> THEN
        PyRange(min_value, max_value + 1, step)
    ELSE IF IsNumeric(e) THEN
        LET r == try_int(e, max_value, min_value)
        IN IF r.err # "" THEN r ELSE Returned(<<r.val>>)
    ELSE IF Contains(e, "/") THEN
        LET parts == Split(e, "/")
        IN IF Len(parts) # 2 THEN Raise("ValueError")
           ELSE LET rhs_step == try_int(parts[2], max_value, min_value)
                IN IF rhs_step.err # "" THEN rhs_step
                   ELSE expression_to_list(parts[1], max_value, min_value, rhs_step.val)
    ELSE IF Contains(e, "-") THEN
        LET parts == Split(e, "-")
        IN IF Len(parts) # 2 THEN Raise("ValueError")
           ELSE LET range_start == try_int(parts[1], max_value, min_value)
                    range_end   == try_int(parts[2], max_value, min_value)
                IN IF range_start.err # "" THEN range_start
                   ELSE IF range_end.err # "" THEN range_end
                   ELSE PyRange(range_start.val, range_end.val + 1, step)
    ELSE Raise("InvalidExpression")

\* _handle_text_day_week: the seven replacements, in the code's order.
handle_text_day_week(day_week_expr) ==
    Replace(Replace(Replace(Replace(Replace(Replace(Replace(day_week_expr,
        "SUN", "0"), "MON", "1"), "TUE", "2"), "WED", "3"), "THU", "4"),
        "FRI", "5"), "SAT", "6")

\* MACROS.get(expression, expression)
MACROS(expression) ==
    CASE expression = "@yearly"   -> "0 0 1 1 *"
      [] expression = "@annually" -> "0 0 1 1 *"
      [] expression = "@monthly"  -> "0 0 1 * *"
      [] expression = "@weekly"   -> "0 0 * * 0"
      [] expression = "@daily"    -> "0 0 * * *"
      [] expression = "@midnight" -> "0 0 * * *"
      [] expression = "@hourly"   -> "0 * * * *"
      [] OTHER -> expression

NoCrontab ==
    [minutes |-> <<>>, hours |-> <<>>, day_of_month |-> <<>>, months |-> <<>>,
     day_of_week |-> <<>>, day_of_month_asterisk |-> FALSE,
     day_of_week_asterisk |-> FALSE]

\* The fields of the expression after macro resolution: expression.split(" ").
Parts(expression) == Split(Chars(MACROS(expression)), " ")

\* The day_of_month_asterisk flag taken from the expanded list instead of
\* the field text.
DayOfMonthAsteriskFromList(day_month_expr, day_months) ==
    day_months = RangeList(1, 32, 1)

\* The Crontab's day_of_month_asterisk argument: day_month_expr == "*".
DayOfMonthAsterisk(day_month_expr, day_months) == day_month_expr = <<"*">>

\* parse(expression): the Crontab, or the exception that leaves parse. The
\* five fields are parsed in the code's order; the first that raises decides.
parse(expression) ==
    LET parts == Parts(expression)
    IN IF Len(parts) # 5 THEN [err |-> "InvalidExpression", val |-> NoCrontab]
       ELSE
        LET day_week_expr == handle_text_day_week(parts[5])
            minutes    == expression_to_list(parts[1], 59, 0, 1)
            hours      == expression_to_list(parts[2], 23, 0, 1)
            day_months == expression_to_list(parts[3], 31, 1, 1)
            months     == expression_to_list(parts[4], 12, 1, 1)
            day_weeks  == expression_to_list(day_week_expr, 6, 0, 1)
            all        == <<minutes, hours, day_months, months, day_weeks>>
            bad        == {i \in 1..5 : all[i].err # ""}
        IN IF bad # {}
           THEN [err |-> all[CHOOSE i \in bad : \A j \in bad : i <= j].err,
                 val |-> NoCrontab]
           ELSE [err |-> "",
                 val |-> [minutes |-> minutes.val,
                          hours |-> hours.val,
                          day_of_month |-> day_months.val,
                          months |-> months.val,
                          day_of_week |-> day_weeks.val,
                          day_of_month_asterisk |->
                              DayOfMonthAsterisk(parts[3], day_months.val),
                          day_of_week_asterisk |-> day_week_expr = <<"*">>]]

(***************************************************************************)
(* The calendar (Python's datetime.date and calendar.Calendar, as far as  *)
(* dates() uses them).                                                     *)
(***************************************************************************)
Date(y, m, d) == [year |-> y, month |-> m, day |-> d]

\* calendar.isleap
isleap(year) == year % 4 = 0 /\ (year % 100 # 0 \/ year % 400 = 0)

\* The number of days of a month (calendar.monthrange's second value).
DaysIn(year, month) ==
    IF month = 2 THEN (IF isleap(year) THEN 29 ELSE 28)
    ELSE IF month \in {4, 6, 9, 11} THEN 30
    ELSE 31

\* date.toordinal(): the day number, 0001-01-01 being day 1.
RECURSIVE DaysBeforeMonth(_, _)
DaysBeforeMonth(year, month) ==
    IF month = 1 THEN 0
    ELSE DaysBeforeMonth(year, month - 1) + DaysIn(year, month - 1)

toordinal(d) ==
    LET y == d.year - 1
    IN y * 365 + (y \div 4) - (y \div 100) + (y \div 400)
       + DaysBeforeMonth(d.year, d.month) + d.day

\* date.weekday(): 0 = Monday ... 6 = Sunday.
weekday(d) == (toordinal(d) + 6) % 7

\* calendar.Calendar().itermonthdays2(year, month): the weeks of the month
\* as (day of month, weekday) pairs, Monday first; the days of the
\* neighbouring months that fill the first and the last week have day 0.
itermonthdays2(year, month) ==
    LET day1   == weekday(Date(year, month, 1))
        ndays  == DaysIn(year, month)
        before == day1
        after  == (0 - day1 - ndays) % 7
    IN [i \in 1..(before + ndays + after) |->
          <<IF i <= before \/ i > before + ndays THEN 0 ELSE i - before,
            (i - 1) % 7>>]

(***************************************************************************)
(* Crontab.dates                                                           *)
(***************************************************************************)
\* _day_of_week_to_cron without the shift: Python's numbering taken as cron's.
day_of_week_unshifted(day_of_week) == day_of_week % 7

\* _day_of_week_to_cron: Python day-of-week (0 = Monday) to cron (0 = Sunday).
day_of_week_to_cron(day_of_week) == (day_of_week + 1) % 7

\* Lines 107-120: whether the day passes the day-of-month / day-of-week rule.
DayMatches(c, day_of_month, day_of_week) ==
    LET day_of_month_match == day_of_month \in SeqRange(c.day_of_month)
        day_of_week_match  ==
            day_of_week_to_cron(day_of_week) \in SeqRange(c.day_of_week)
    IN IF c.day_of_week_asterisk THEN day_of_month_match
       ELSE IF c.day_of_month_asterisk THEN day_of_week_match
       ELSE day_of_month_match \/ day_of_week_match

\* Lines 101-122: whether the day loop's body reaches its yield for the item.
DayYields(c, anchor, month, item) ==
    /\ item[1] # 0
    /\ ~(month = anchor.month /\ item[1] < anchor.day)
    /\ DayMatches(c, item[1], item[2])

\* The positions of the day loop, from position from on, at which the month
\* at position mi of the month loop yields; none when line 95 skips the month.
YieldDays(c, anchor, mi, from) ==
    LET month == c.months[mi]
        days  == itermonthdays2(anchor.year, month)
    IN IF month < anchor.month THEN {}
       ELSE {di \in from..Len(days) : DayYields(c, anchor, month, days[di])}

MinOf(S) == CHOOSE x \in S : \A y \in S : x <= y

NoDate == Date(0, 0, 0)

IdleDates ==
    [pc |-> "idle", start |-> NoDate, anchor |-> NoDate, mi |-> 0, di |-> 0,
     out |-> <<>>, k |-> 0]

\* A call of dates(start): nothing runs until the first next().
NewDates(start, k) ==
    [pc |-> "running", start |-> start, anchor |-> start, mi |-> 1, di |-> 1,
     out |-> <<>>, k |-> k]

\* The first loop position (month position, day position) from (mi, di) on
\* at which the pass for anchor.year yields; <<0, 0>> when it yields nothing
\* more.
RECURSIVE FirstYield(_, _, _, _)
FirstYield(c, anchor, mi, di) ==
    IF mi > Len(c.months) THEN <<0, 0>>
    ELSE LET ds == YieldDays(c, anchor, mi, di)
         IN IF ds # {} THEN <<mi, MinOf(ds)>>
            ELSE FirstYield(c, anchor, mi + 1, 1)

\* The generator resumed at the loop position (mi, di) of the pass for
\* anchor.year: it runs to its next yield of this pass, or, when the pass
\* yields nothing more, to line 123 and the start of the next pass.
dates(c, g) ==
    LET p == FirstYield(c, g.anchor, g.mi, g.di)
    IN IF p # <<0, 0>>
       THEN LET item == itermonthdays2(g.anchor.year, c.months[p[1]])[p[2]]
            IN [g EXCEPT !.pc = "yielded", !.mi = p[1], !.di = p[2] + 1,
                         !.out = Append(@, Date(g.anchor.year, c.months[p[1]],
                                                item[1]))]
       ELSE [g EXCEPT !.pc = "running", !.mi = 1, !.di = 1,
                      !.anchor = Date(g.anchor.year + 1, 1, 1)]

(***************************************************************************)
(* Crontab.date_times                                                      *)
(***************************************************************************)
Instant(d, h, m, s) == [date |-> d, hour |-> h, minute |-> m, second |-> s]

\* Line 67: the hour is skipped.
SkipHour(is_start_day, hour, anchor) == is_start_day /\ hour < anchor.hour

\* Line 71 with <= for <.
SkipMinuteInclusive(is_start_hour, minute, anchor) ==
    is_start_hour /\ minute <= anchor.minute

\* Line 71 with the start day's filter applied in every hour of that day.
SkipMinuteAllDay(is_start_hour, minute, anchor) == minute < anchor.minute

\* Line 71: the minute is skipped.
SkipMinute(is_start_hour, minute, anchor) ==
    is_start_hour /\ minute < anchor.minute

\* Lines 62-72: whether the loops' body reaches the yield for hour position
\* hi and minute position mi of the day.
TimeYields(c, anchor, day, hi, mi) ==
    LET is_start_day  == day = anchor.date
        hour          == c.hours[hi]
        is_start_hour == is_start_day /\ hour = anchor.hour
    IN /\ ~SkipHour(is_start_day, hour, anchor)
       /\ ~SkipMinute(is_start_hour, c.minutes[mi], anchor)

\* The loop positions (hour, minute) of a day from (hi, mi) on, in order.
TimePositions(c, hi, mi) ==
    {p \in (1..Len(c.hours)) \X (1..Len(c.minutes)) :
        p[1] > hi \/ (p[1] = hi /\ p[2] >= mi)}

PosLE(p, q) == p[1] < q[1] \/ (p[1] = q[1] /\ p[2] <= q[2])

IdleDateTimes ==
    [pc |-> "idle", anchor |-> Instant(NoDate, 0, 0, 0), dg |-> IdleDates,
     day |-> NoDate, hi |-> 0, mi |-> 0, out |-> <<>>, k |-> 0]

\* A call of date_times(start): anchor_date = anchor.date(), and the day
\* loop over self.dates(anchor_date) has not begun.
NewDateTimes(start, k) ==
    [pc |-> "running", anchor |-> start, dg |-> NewDates(start.date, 0),
     day |-> NoDate, hi |-> 1, mi |-> 1, out |-> <<>>, k |-> k]

\* The generator resumed: it runs to its next yield within the current day;
\* when the day has none left it resumes self.dates() for the next day.
date_times(c, g) ==
    LET ps == IF g.day = NoDate THEN {}
              ELSE {p \in TimePositions(c, g.hi, g.mi) :
                       TimeYields(c, g.anchor, g.day, p[1], p[2])}
    IN IF ps # {}
       THEN LET p == CHOOSE x \in ps : \A y \in ps : PosLE(x, y)
            IN [g EXCEPT !.pc = "yielded", !.hi = p[1], !.mi = p[2] + 1,
                         !.out = Append(@, Instant(g.day, c.hours[p[1]],
                                                   c.minutes[p[2]], 0))]
       ELSE LET dg == dates(c, g.dg)
            IN IF dg.pc = "yielded"
               THEN [g EXCEPT !.pc = "running", !.dg = dg,
                              !.day = dg.out[Len(dg.out)], !.hi = 1, !.mi = 1]
               ELSE [g EXCEPT !.pc = "running", !.dg = dg, !.day = NoDate]

(***************************************************************************)
(* The inputs of the exploration.                                          *)
(***************************************************************************)
\* The expressions whose schedules are run: those of the repository's tests
\* and documentation, and the corner cases of the field grammar.
Expressions ==
    {"*/10 3,6 * * 1-4", "0 20 * * *", "0 0 1 * *", "15 3 * * *",
     "*/20 */12 * * *", "0 0 * 4 *", "0 0 * 2 5", "0 0 * 2 FRI",
     "0 0 3 * *", "0 0 3 2 *", "0 0 * * 5", "0 0 3 * 5", "0 0 3 2 5",
     "0 0 * * *", "@weekly", "@monthly", "@hourly",
     "0 0 1-31 * 5", "0 0 1-31 2 0-6", "0 0 * * 0-6", "0 0 */2 * *",
     "30 10 * * *", "0,30 6,18 31 * *", "45,15 18,6 * 12,1 *",
     "0 0 29 2 *", "0 0 30 2 *", "0 0 31 4,6 *",
     "0 0 5-2 * *", "0 0 * 5-2 *", "0 0 * * 5-2", "0 5-2 * * *",
     "*/0 * * * *", "0 0 * *", "0 0 32 * *"}

\* The start instants handed to date_times(); dates() is started at their
\* dates.
StartInstants ==
    {Instant(Date(2022, 1, 1), 0, 0, 0),
     Instant(Date(2022, 4, 1), 10, 30, 0),
     Instant(Date(2022, 4, 1), 10, 30, 30),
     Instant(Date(2022, 3, 31), 23, 0, 0),
     Instant(Date(2022, 5, 9), 6, 15, 0),
     Instant(Date(2022, 12, 31), 23, 59, 59),
     Instant(Date(2024, 2, 28), 18, 0, 0),
     Instant(Date(2023, 12, 30), 0, 0, 0)}

\* The characters of the field texts tried on the parser.
Alphabet == {"*", "/", "-", ",", "0", "2", "5"}

\* The field texts tried on the parser have at most MaxLen characters.
MaxLen == 4

RECURSIVE Texts(_)
Texts(n) ==
    IF n = 0 THEN {""}
    ELSE LET shorter == Texts(n - 1)
         IN shorter \cup {t \o a : t \in {u \in shorter : Len(u) = n - 1},
                                   a \in Alphabet}

\* An expression with the text t as its field number i, the other fields
\* being "*".
WithField(i, t) ==
    LET f(j) == IF j = i THEN t ELSE "*"
    IN f(1) \o " " \o f(2) \o " " \o f(3) \o " " \o f(4) \o " " \o f(5)

ParseInputs ==
    {WithField(i, t) : i \in 1..5, t \in Texts(MaxLen)}
    \cup Expressions
    \cup {"@yearly", "@annually", "@daily", "@midnight", "@never",
          "0-20/10,40-50/10 * * * *", "0-20/10,*/10,12 0-20/2 * */2 *",
          "0 22 * * MON-FRI", "0 0 * * SUN,WED", "0 0 * * SUNMONTUE",
          "0 0 * * 1/2/3", "0 0 1-2-3 * *", "x * * * *", "* * * * * *"}

(***************************************************************************)
(* The state machine: parse once, then generators over the Crontab.       *)
(***************************************************************************)
InitWith(inputs) ==
    /\ expr \in inputs
    /\ ppc = "init"
    /\ crontab = NoCrontab
    /\ raised = ""
    /\ dgens = [i \in 1..2 |-> IdleDates]
    /\ tgens = [i \in 1..2 |-> IdleDateTimes]

Init == InitWith(Expressions)

InitParse == InitWith(ParseInputs)

\* parse(expr) returns the Crontab or raises.
Parse ==
    /\ ppc = "init"
    /\ LET r == parse(expr)
       IN /\ ppc' = IF r.err = "" THEN "parsed" ELSE "raised"
          /\ crontab' = r.val
          /\ raised' = r.err
    /\ UNCHANGED <<expr, dgens, tgens>>

NoDatesRun == \A i \in 1..2 : dgens[i].pc = "idle"

NoDateTimesRun == \A i \in 1..2 : tgens[i].pc = "idle"

\* crontab.dates(start)
StartDates ==
    /\ ppc = "parsed"
    /\ dgens[1].pc = "idle"
    /\ NoDateTimesRun
    /\ \E s \in StartInstants : dgens' = [dgens EXCEPT ![1] = NewDates(s.date, 0)]
    /\ UNCHANGED <<expr, ppc, crontab, raised, tgens>>

\* A second crontab.dates(start), at the first generator's start (k = 0)
\* or at the k-th date the first generator has emitted.
RestartDates ==
    /\ dgens[1].pc # "idle"
    /\ dgens[2].pc = "idle"
    /\ \E k \in 0..Len(dgens[1].out) :
          dgens' = [dgens EXCEPT ![2] =
                      NewDates(IF k = 0 THEN dgens[1].start ELSE dgens[1].out[k], k)]
    /\ UNCHANGED <<expr, ppc, crontab, raised, tgens>>

\* The consumer has not truncated the dates generator g.
DatesPulled(g) ==
    /\ g.pc # "idle"
    /\ Len(g.out) < MaxPulls
    /\ g.anchor.year < g.start.year + MaxYears

\* next() on a dates generator (one pass of its while loop at a time).
ResumeDates ==
    /\ \E i \in 1..2 :
          /\ DatesPulled(dgens[i])
          /\ dgens' = [dgens EXCEPT ![i] = dates(crontab, dgens[i])]
    /\ UNCHANGED <<expr, ppc, crontab, raised, tgens>>

\* crontab.date_times(start); crontab.next is its first element.
StartDateTimes ==
    /\ ppc = "parsed"
    /\ tgens[1].pc = "idle"
    /\ NoDatesRun
    /\ \E s \in StartInstants : tgens' = [tgens EXCEPT ![1] = NewDateTimes(s, 0)]
    /\ UNCHANGED <<expr, ppc, crontab, raised, dgens>>

\* A second crontab.date_times(start), at the first generator's start
\* (k = 0) or at the k-th instant the first generator has emitted.
RestartDateTimes ==
    /\ tgens[1].pc # "idle"
    /\ tgens[2].pc = "idle"
    /\ \E k \in 0..Len(tgens[1].out) :
          tgens' = [tgens EXCEPT ![2] =
                      NewDateTimes(IF k = 0 THEN tgens[1].anchor
                                   ELSE tgens[1].out[k], k)]
    /\ UNCHANGED <<expr, ppc, crontab, raised, dgens>>

\* The consumer has not truncated the date_times generator g.
DateTimesPulled(g) ==
    /\ g.pc # "idle"
    /\ Len(g.out) < MaxPulls
    /\ Len(g.dg.out) <= MaxPulls
    /\ g.dg.anchor.year < g.anchor.date.year + MaxYears

\* next() on a date_times generator (one day of self.dates() at a time).
ResumeDateTimes ==
    /\ \E i \in 1..2 :
          /\ DateTimesPulled(tgens[i])
          /\ tgens' = [tgens EXCEPT ![i] = date_times(crontab, tgens[i])]
    /\ UNCHANGED <<expr, ppc, crontab, raised, dgens>>

Next ==
    \/ Parse
    \/ StartDates
    \/ RestartDates
    \/ ResumeDates
    \/ StartDateTimes
    \/ RestartDateTimes
    \/ ResumeDateTimes

Spec == Init /\ [][Next]_vars

NextParse == Parse

SpecParse == InitParse /\ [][NextParse]_vars

(***************************************************************************)
(* The properties.                                                          *)
(***************************************************************************)
Last(q) == q[Len(q)]

\* Dates and instants in calendar order (second included).
DateLT(a, b) ==
    \/ a.year < b.year
    \/ a.year = b.year /\ a.month < b.month
    \/ a.year = b.year /\ a.month = b.month /\ a.day < b.day

DateLE(a, b) == a = b \/ DateLT(a, b)

InstantLT(a, b) ==
    \/ DateLT(a.date, b.date)
    \/ a.date = b.date /\ a.hour < b.hour
    \/ a.date = b.date /\ a.hour = b.hour /\ a.minute < b.minute
    \/ a.date = b.date /\ a.hour = b.hour /\ a.minute = b.minute
       /\ a.second < b.second

InstantLE(a, b) == a = b \/ InstantLT(a, b)

\* Whether a field of the expression is a wildcard, from its text.
DayOfMonthTextIsWildcard == Parts(expr)[3] = <<"*">>

DayOfWeekTextIsWildcard == handle_text_day_week(Parts(expr)[5]) = <<"*">>

\* The calendar dates of the years y1..y2 in the given months.
CalendarDates(y1, y2, months) ==
    {dt \in {Date(y, m, d) : y \in y1..y2, m \in months, d \in 1..31} :
        dt.day <= DaysIn(dt.year, dt.month)}

\* The cron weekday of a date, from its day number (0 = Sunday).
CronWeekday(d) == (weekday(d) + 1) % 7

\* The combination rule as the specification states it, for a date d and
\* the two fields' being wildcards or not.
RuleHolds(d, dom_wildcard, dow_wildcard) ==
    LET dom == d.day \in SeqRange(crontab.day_of_month)
        dow == CronWeekday(d) \in SeqRange(crontab.day_of_week)
    IN IF dow_wildcard /\ ~dom_wildcard THEN dom
       ELSE IF dom_wildcard /\ ~dow_wildcard THEN dow
       ELSE dom \/ dow

\* The dates a dates generator has decided on so far: from its start up to
\* the date it last emitted, or up to the year it has moved on to.
Scanned(g, d) ==
    /\ DateLE(g.start, d)
    /\ IF g.pc = "yielded" THEN DateLE(d, Last(g.out)) ELSE DateLT(d, g.anchor)

\* C1: the dates emitted by dates(start) are exactly the calendar dates
\* d >= start whose month is in the month set and that satisfy the
\* combination rule (day-of-month only, day-of-week only, or either one,
\* by the wildcards of the two fields), none skipped and none extra,
\* later years included.
C1_DatesExact ==
    LET dom_wildcard == DayOfMonthTextIsWildcard
        dow_wildcard == DayOfWeekTextIsWildcard
        months       == SeqRange(crontab.months)
    IN \A i \in 1..2 :
        LET g == dgens[i]
        IN g.pc # "idle" =>
             SeqRange(g.out) =
                {d \in CalendarDates(g.start.year, g.anchor.year, months) :
                    Scanned(g, d) /\ RuleHolds(d, dom_wildcard, dow_wildcard)}

\* C1's case: under the OR rule (neither field a wildcard) a generator has
\* emitted, in a later year, a date whose month lies before the start's.
C1_Witness ==
    /\ ~DayOfMonthTextIsWildcard
    /\ ~DayOfWeekTextIsWildcard
    /\ \E i \in 1..2 :
          /\ Len(dgens[i].out) >= 2
          /\ Last(dgens[i].out).year > dgens[i].start.year
          /\ Last(dgens[i].out).month < dgens[i].start.month

\* C2: the first element of date_times(start), which is what next returns,
\* is an instant >= start, whatever the start's hour, minute and second.
C2_FirstNotBeforeStart ==
    \A i \in 1..2 :
        tgens[i].out # <<>> => InstantLE(tgens[i].anchor, tgens[i].out[1])

\* C3: dates() goes on emitting: from its start, and after each date it has
\* emitted, the generator emits a further date. A date pattern of the
\* Gregorian calendar that occurs at all recurs within 8 years (29 February
\* across a century year that is no leap year), so a generator that is more
\* than 8 years past its start or its last date without a further date never
\* emits one.
C3_DatesKeepComing ==
    \A i \in 1..2 :
        LET g == dgens[i]
        IN g.pc # "idle" =>
             g.anchor.year - (IF g.out = <<>> THEN g.start.year
                              ELSE Last(g.out).year) <= 8

\* C4: parse returns a Schedule or fails with the single error kind
\* InvalidExpression, never with another error kind.
C4_OnlyInvalidExpression == raised \in {"", "InvalidExpression"}

\* C5: date_times(start) emits exactly the instants (d, h, m) with d in
\* dates(start's date), h in the hour set and m in the minute set such that
\* (d, h, m) >= (start date, start hour, start minute).
C5_DateTimesExact ==
    \A i \in 1..2 :
        LET g == tgens[i]
            from == Instant(g.anchor.date, g.anchor.hour, g.anchor.minute, 0)
        IN g.out # <<>> =>
             SeqRange(g.out) =
                {x \in {Instant(d, h, m, 0) : d \in SeqRange(g.dg.out),
                                              h \in SeqRange(crontab.hours),
                                              m \in SeqRange(crontab.minutes)} :
                    InstantLE(from, x) /\ InstantLE(x, Last(g.out))}

\* C5's case: on the start date, in an hour after the start hour, a minute
\* before the start minute has been emitted.
C5_Witness ==
    \E i \in 1..2 : \E j \in 1..Len(tgens[i].out) :
        LET g == tgens[i]
        IN /\ g.out[j].date = g.anchor.date
           /\ g.out[j].hour > g.anchor.hour
           /\ g.out[j].minute < g.anchor.minute

\* C6: each date emitted by dates() is strictly later than the one before
\* it, and each instant emitted by date_times() is strictly greater by
\* (date, hour, minute) than the one before it.
C6_StrictlyAscending ==
    \A i \in 1..2 :
        /\ \A j \in 1..(Len(dgens[i].out) - 1) :
              DateLT(dgens[i].out[j], dgens[i].out[j + 1])
        /\ \A j \in 1..(Len(tgens[i].out) - 1) :
              InstantLT(tgens[i].out[j], tgens[i].out[j + 1])

\* C6's case: two instants emitted one after the other lie in different
\* years.
C6_Witness ==
    \E i \in 1..2 : \E j \in 1..(Len(tgens[i].out) - 1) :
        tgens[i].out[j].date.year < tgens[i].out[j + 1].date.year

\* C7: the wildcard flags are those of the field texts (exactly "*", the
\* day-of-week text after the abbreviations are substituted), not of the
\* expanded sets: with a day-of-month text other than "*" that expands to
\* 1..31 and a day-of-week text other than "*", dates() emits every day of
\* each scheduled month; with day-of-month "*" it emits only days whose
\* weekday is in the day-of-week set.
C7_WildcardFromText ==
    LET dom_wildcard == DayOfMonthTextIsWildcard
        dow_wildcard == DayOfWeekTextIsWildcard
        months       == SeqRange(crontab.months)
        dow_set      == SeqRange(crontab.day_of_week)
    IN ppc = "parsed" =>
      /\ crontab.day_of_month_asterisk = dom_wildcard
      /\ crontab.day_of_week_asterisk = dow_wildcard
      /\ \A i \in 1..2 :
            LET g == dgens[i]
            IN /\ ( /\ g.pc # "idle"
                    /\ ~dom_wildcard
                    /\ ~dow_wildcard
                    /\ SeqRange(crontab.day_of_month) = 1..31 )
                  => \A d \in CalendarDates(g.start.year, g.anchor.year, months) :
                        Scanned(g, d) => d \in SeqRange(g.out)
               /\ (dom_wildcard /\ ~dow_wildcard)
                  => \A j \in 1..Len(g.out) : CronWeekday(g.out[j]) \in dow_set

\* C7's case: the day-of-month text is not "*" but expands to 1..31, and the
\* generator has emitted a day whose weekday is not in the day-of-week set.
C7_Witness ==
    /\ ppc = "parsed"
    /\ ~DayOfMonthTextIsWildcard
    /\ SeqRange(crontab.day_of_month) = 1..31
    /\ \E i \in 1..2 : \E j \in 1..Len(dgens[i].out) :
          CronWeekday(dgens[i].out[j]) \notin SeqRange(crontab.day_of_week)

\* C8: after successful parsing none of the five value sets is empty.
C8_NoEmptySet ==
    ppc = "parsed" =>
      /\ crontab.minutes # <<>>
      /\ crontab.hours # <<>>
      /\ crontab.day_of_month # <<>>
      /\ crontab.months # <<>>
      /\ crontab.day_of_week # <<>>

\* A list is strictly ascending (so without duplicates) and within lo..hi.
AscendingWithin(q, lo, hi) ==
    /\ \A j \in 1..Len(q) : lo <= q[j] /\ q[j] <= hi
    /\ \A j \in 1..(Len(q) - 1) : q[j] < q[j + 1]

\* C9: for every accepted field text the value set is sorted ascending, has
\* no duplicates, and lies within the field's range (minute 0-59, hour 0-23,
\* day-of-month 1-31, month 1-12, day-of-week 0-6).
C9_SortedUniqueInRange ==
    ppc = "parsed" =>
      /\ AscendingWithin(crontab.minutes, 0, 59)
      /\ AscendingWithin(crontab.hours, 0, 23)
      /\ AscendingWithin(crontab.day_of_month, 1, 31)
      /\ AscendingWithin(crontab.months, 1, 12)
      /\ AscendingWithin(crontab.day_of_week, 0, 6)

\* C9's case: a field text combining a list, steps, ranges, a wildcard and
\* a literal has been parsed.
C9_Witness ==
    /\ ppc = "parsed"
    /\ Parts(expr)[1] = Chars("0-20/10,*/10,12")
    /\ crontab.minutes = <<0, 10, 12, 20, 30, 40, 50>>

\* The element of the first generator's output that the j-th element of
\* the second generator's output is to equal.
Matching(k, j) == IF k = 0 THEN j ELSE k + j - 1

\* C10: a generator started at the k-th element of another generator's
\* sequence (or at the same start) emits, in any interleaving with it, that
\* sequence from the k-th element on, for date_times() and for dates().
C10_Restartable ==
    /\ \A j \in 1..Len(dgens[2].out) :
          Matching(dgens[2].k, j) <= Len(dgens[1].out)
            => dgens[2].out[j] = dgens[1].out[Matching(dgens[2].k, j)]
    /\ \A j \in 1..Len(tgens[2].out) :
          Matching(tgens[2].k, j) <= Len(tgens[1].out)
            => tgens[2].out[j] = tgens[1].out[Matching(tgens[2].k, j)]

\* C10's case: a date_times generator restarted at the second or a later
\* element of the first has emitted two elements that the first has emitted
\* too.
C10_Witness ==
    /\ tgens[2].k >= 2
    /\ Len(tgens[2].out) >= 2
    /\ Len(tgens[1].out) >= tgens[2].k + 1

====
